---- MODULE Spec2Model ----
(***************************************************************************)
(* ScreenSnapp API (src/main.py): one POST /identify-screen request as a   *)
(* state machine.  bearer_auth -> identify_screen -> clarifai_ocr ->       *)
(* extract_text_from_clarifai_response -> guess_title_from_text ->         *)
(* tmdb_search -> response.                                                *)
(*                                                                         *)
(* A Python str is a sequence of one-character strings; None is the model  *)
(* value None.  The two remote HTTP calls are split in a send step and a   *)
(* receive step, the reply being chosen by the environment.                *)
(***************************************************************************)
EXTENDS Integers, Sequences, FiniteSets, TLC

VARIABLES
    API_BEARER_TOKEN,        \* module globals read from the environment
    CLARIFAI_PAT,
    CLARIFAI_USER_ID,
    CLARIFAI_APP_ID,
    CLARIFAI_OCR_MODEL_ID,
    TMDB_API_KEY,
    authorization,           \* the request's Authorization header (or None)
    file,                    \* the upload: None, or its contents
    pc,                      \* position of the request
    status,                  \* HTTP status of the response, 0 while pending
    detail,                  \* the error detail of the response
    calls,                   \* history of the remote calls of this request
    clarifai_data,           \* reply of the vision API as received
    texts,                   \* raw fragments gathered from the reply
    cleaned,                 \* fragments kept by the cleanup
    ocr_text,
    guessed_title,
    tmdb_resp,               \* reply of the metadata API as received
    tmdb_result

vars == <<API_BEARER_TOKEN, CLARIFAI_PAT, CLARIFAI_USER_ID, CLARIFAI_APP_ID,
          CLARIFAI_OCR_MODEL_ID, TMDB_API_KEY, authorization, file, pc, status,
          detail, calls, clarifai_data, texts, cleaned, ocr_text,
          guessed_title, tmdb_resp, tmdb_result>>

config == <<API_BEARER_TOKEN, CLARIFAI_PAT, CLARIFAI_USER_ID, CLARIFAI_APP_ID,
            CLARIFAI_OCR_MODEL_ID, TMDB_API_KEY>>

request == <<authorization, file>>

\* Python's None where a str is expected: a value no str equals
None == <<"None">>

\* no exception raised
NoError == ""

(***************************************************************************)
(* Python str operations                                                   *)
(***************************************************************************)
\* str.isspace for the characters of the model's alphabet
IsSpace(c) == c \in {" ", "\t", "\n", "\r"}

\* str.isalpha
IsAlpha(c) == c \in {"a", "b", "c", "d", "e", "k", "r", "s", "t", "x", "i",
                     "A", "B", "C", "E", "R", "S"}

\* str.lower, one character
LowerChar(c) ==
    CASE c = "A" -> "a"
      [] c = "B" -> "b"
      [] c = "C" -> "c"
      [] c = "E" -> "e"
      [] c = "R" -> "r"
      [] c = "S" -> "s"
      [] OTHER -> c

Lower(s) == [i \in 1..Len(s) |-> LowerChar(s[i])]

RECURSIVE LStrip(_)
LStrip(s) == IF s # <<>> /\ IsSpace(Head(s)) THEN LStrip(Tail(s)) ELSE s

RECURSIVE RStrip(_)
RStrip(s) ==
    IF s # <<>> /\ IsSpace(s[Len(s)]) THEN RStrip(SubSeq(s, 1, Len(s) - 1)) ELSE s

\* variant: strips one whitespace character at each end only
StripOnce(s) ==
    LET l == IF s # <<>> /\ IsSpace(Head(s)) THEN Tail(s) ELSE s
    IN  IF l # <<>> /\ IsSpace(l[Len(l)]) THEN SubSeq(l, 1, Len(l) - 1) ELSE l

\* str.strip()
Strip(s) == RStrip(LStrip(s))

\* index of the first element of s in set cs, 0 if there is none
RECURSIVE FirstIn(_, _, _)
FirstIn(s, cs, i) ==
    IF i > Len(s) THEN 0
    ELSE IF s[i] \in cs THEN i
    ELSE FirstIn(s, cs, i + 1)

\* str.split(" ", 1)
Split1(s) ==
    LET i == FirstIn(s, {" "}, 1)
    IN  IF i = 0 THEN <<s>>
        ELSE <<SubSeq(s, 1, i - 1), SubSeq(s, i + 1, Len(s))>>

\* sep.join(parts)
RECURSIVE Join(_, _)
Join(parts, sep) ==
    IF parts = <<>> THEN <<>>
    ELSE IF Len(parts) = 1 THEN parts[1]
    ELSE parts[1] \o sep \o Join(Tail(parts), sep)

bearer == <<"b", "e", "a", "r", "e", "r">>

(***************************************************************************)
(* require_env, bearer_auth                                                *)
(***************************************************************************)
\* require_env(name, value): the RuntimeError's message, or NoError
require_env(name, value) ==
    IF value = <<>> THEN name \o " is missing (Railway Variables -> " \o name \o ")"
    ELSE NoError

\* variant: the token is not compared
bearer_auth_anyToken(token, header) ==
    IF token = <<>> THEN NoError
    ELSE IF header = None \/ header = <<>> THEN "Missing Authorization header"
    ELSE LET parts == Split1(header)
         IN  IF Len(parts) # 2 \/ Lower(parts[1]) # bearer
                 THEN "Invalid Authorization header format"
             ELSE NoError

\* bearer_auth(authorization): the detail of the 401 it raises, or NoError
bearer_auth(token, header) ==
    IF token = <<>> THEN NoError
    ELSE IF header = None \/ header = <<>> THEN "Missing Authorization header"
    ELSE LET parts == Split1(header)
         IN  IF Len(parts) # 2 \/ Lower(parts[1]) # bearer
                 THEN "Invalid Authorization header format"
             ELSE IF Strip(parts[2]) # token THEN "Invalid token"
             ELSE NoError

(***************************************************************************)
(* extract_text_from_clarifai_response                                     *)
(***************************************************************************)
NonEmpty(t) == t # <<>>

\* the strings gathered from outputs[0].data: regions, text.raw, concepts
GatherTexts(data) ==
    IF data.outputs # "present" THEN <<>>
    ELSE SelectSeq(data.regions, NonEmpty)
         \o (IF data.text # <<>> THEN <<data.text>> ELSE <<>>)
         \o SelectSeq(data.concepts, NonEmpty)

\* the cleanup loop: trim, drop empties and case-insensitive duplicates
RECURSIVE CleanupLoop(_, _, _)
CleanupLoop(ts, seen, kept) ==
    IF ts = <<>> THEN kept
    ELSE LET t2 == Strip(Head(ts))
         IN  IF t2 # <<>> /\ Lower(t2) \notin seen
                 THEN CleanupLoop(Tail(ts), seen \cup {Lower(t2)}, Append(kept, t2))
                 ELSE CleanupLoop(Tail(ts), seen, kept)

\* variant: duplicates are compared case-sensitively
RECURSIVE CleanupLoop_caseSensitive(_, _, _)
CleanupLoop_caseSensitive(ts, seen, kept) ==
    IF ts = <<>> THEN kept
    ELSE LET t2 == Strip(Head(ts))
         IN  IF t2 # <<>> /\ t2 \notin seen
                 THEN CleanupLoop_caseSensitive(Tail(ts), seen \cup {t2}, Append(kept, t2))
                 ELSE CleanupLoop_caseSensitive(Tail(ts), seen, kept)

Cleanup_caseSensitive(ts) == CleanupLoop_caseSensitive(ts, {}, <<>>)

Cleanup(ts) == CleanupLoop(ts, {}, <<>>)

\* " ".join(cleaned).strip()
CombinedText(kept) == Strip(Join(kept, <<" ">>))

\* the cleanup as one function: fragments kept and combined text
consolidate(ts) ==
    [fragments |-> Cleanup(ts), combinedText |-> CombinedText(Cleanup(ts))]

extract_text_from_clarifai_response(data) == CombinedText(Cleanup(GatherTexts(data)))

(***************************************************************************)
(* guess_title_from_text                                                   *)
(***************************************************************************)
MaxTitleLen == 80
MinTitleLen == 3
MinAlpha == 3

Take(s, n) == SubSeq(s, 1, IF Len(s) < n THEN Len(s) ELSE n)

\* length of the run of characters of cs that starts at s[i]
RECURSIVE RunLen(_, _, _)
RunLen(s, cs, i) ==
    IF i > Len(s) \/ s[i] \notin cs THEN 0 ELSE 1 + RunLen(s, cs, i + 1)

\* re.sub of every run of at least min characters of cs by one space
RECURSIVE SubRuns(_, _, _, _)
SubRuns(s, cs, min, i) ==
    IF i > Len(s) THEN <<>>
    ELSE LET n == RunLen(s, cs, i)
         IN  IF n >= min THEN <<" ">> \o SubRuns(s, cs, min, i + n)
             ELSE <<s[i]>> \o SubRuns(s, cs, min, i + 1)

Whitespace == {" ", "\t", "\n", "\r"}
Junk == {"\r", "\n", "\t"}
\* the separators of the character class [|, bullet, middle dot]
Separators == {"|", "bullet", "middot"}

\* re.split on runs of separators; cur is the piece being read
RECURSIVE SplitRuns(_, _, _, _)
SplitRuns(s, cs, i, cur) ==
    IF i > Len(s) THEN <<cur>>
    ELSE IF s[i] \in cs
        THEN <<cur>> \o SplitRuns(s, cs, i + RunLen(s, cs, i), <<>>)
        ELSE SplitRuns(s, cs, i + 1, Append(cur, s[i]))

StripAll(cands) == [i \in 1..Len(cands) |-> Strip(cands[i])]

\* insert c behind every element at least as long: a stable descending sort
RECURSIVE InsertByLen(_, _)
InsertByLen(sorted, c) ==
    IF sorted = <<>> THEN <<c>>
    ELSE IF Len(Head(sorted)) >= Len(c)
        THEN <<Head(sorted)>> \o InsertByLen(Tail(sorted), c)
        ELSE <<c>> \o sorted

RECURSIVE SortByLenDesc(_, _)
SortByLenDesc(cands, sorted) ==
    IF cands = <<>> THEN sorted
    ELSE SortByLenDesc(Tail(cands), InsertByLen(sorted, Head(cands)))

CountAlpha(c) == Cardinality({i \in 1..Len(c) : IsAlpha(c[i])})

TitleLike(c) ==
    /\ MinTitleLen <= Len(c)
    /\ Len(c) <= MaxTitleLen
    /\ CountAlpha(c) >= MinAlpha

guess_title_from_text(text) ==
    IF text = <<>> THEN <<>>
    ELSE LET s == Strip(SubRuns(SubRuns(text, Junk, 1, 1), Whitespace, 2, 1))
             cands == SortByLenDesc(
                          SelectSeq(StripAll(SplitRuns(s, Separators, 1, <<>>)), NonEmpty),
                          <<>>)
             good == SelectSeq(cands, TitleLike)
         IN  IF good # <<>> THEN Head(good) ELSE Take(s, MaxTitleLen)

(***************************************************************************)
(* Replies of the two remote APIs                                          *)
(***************************************************************************)
ClarifaiSuccess == 10000
\* the reply carries no status code
NoCode == 0

\* requests.post(...) of clarifai_ocr: a transport error, or an HTTP reply
\* whose body is not JSON, JSON that is no object, or an object with an
\* optional status.code and outputs[0].data
ClarifaiReply(transport, status_code, json, code, outputs, regions, text, concepts) ==
    [transport |-> transport, status_code |-> status_code, json |-> json,
     code |-> code, outputs |-> outputs, regions |-> regions, text |-> text,
     concepts |-> concepts]

NoClarifaiReply == ClarifaiReply(FALSE, 0, "none", NoCode, "absent", <<>>, <<>>, <<>>)

\* what clarifai_ocr does with the reply: an exception that is no
\* HTTPException (exc), an HTTPException 502 (http), or the data returned
clarifai_ocr_reply(resp) ==
    IF resp.transport THEN [exc |-> "ConnectionError", http |-> 0, error |-> ""]
    ELSE IF resp.status_code # 200
        THEN [exc |-> "", http |-> 502, error |-> "Clarifai request failed"]
    ELSE IF resp.json = "unparsable"
        THEN [exc |-> "JSONDecodeError", http |-> 0, error |-> ""]
    ELSE IF resp.json = "not_object"
        THEN [exc |-> "AttributeError", http |-> 0, error |-> ""]
    ELSE IF resp.code \notin {NoCode, ClarifaiSuccess}
        THEN [exc |-> "", http |-> 502, error |-> "Clarifai non-success status"]
    ELSE [exc |-> "", http |-> 0, error |-> ""]

\* requests.get(...) of tmdb_search: a transport error, or an HTTP reply
\* whose body is not JSON, JSON that is no object, or an object with an
\* optional results list; a result is its media_type and its id
TmdbReply(transport, status_code, json, has_results, results) ==
    [transport |-> transport, status_code |-> status_code, json |-> json,
     has_results |-> has_results, results |-> results]

NoTmdbReply == TmdbReply(FALSE, 0, "none", FALSE, <<>>)

TmdbResult(found, reason, status_code, media_type, tmdb_id) ==
    [found |-> found, reason |-> reason, status_code |-> status_code,
     media_type |-> media_type, tmdb_id |-> tmdb_id]

NoTmdbResult == TmdbResult(FALSE, "not searched", 0, "", 0)

\* variant: the HTTP status of the reply is not looked at
tmdb_search_reply_noStatusCheck(resp) ==
    IF resp.transport THEN [exc |-> "ConnectionError", result |-> NoTmdbResult]
    ELSE IF resp.json = "unparsable"
        THEN [exc |-> "JSONDecodeError", result |-> NoTmdbResult]
    ELSE IF resp.json = "not_object"
        THEN [exc |-> "AttributeError", result |-> NoTmdbResult]
    ELSE LET results == IF resp.has_results THEN resp.results ELSE <<>>
         IN  IF results = <<>>
                 THEN [exc |-> "", result |-> TmdbResult(FALSE, "No results", 0, "", 0)]
                 ELSE LET best == results[1]
                      IN  [exc |-> "",
                           result |-> TmdbResult(TRUE, "", 0, best.media_type, best.id)]

\* tmdb_search from the reply on: an exception (exc) or the dict returned
tmdb_search_reply(resp) ==
    IF resp.transport THEN [exc |-> "ConnectionError", result |-> NoTmdbResult]
    ELSE IF resp.status_code # 200
        THEN [exc |-> "",
              result |-> TmdbResult(FALSE, "TMDB error", resp.status_code, "", 0)]
    ELSE IF resp.json = "unparsable"
        THEN [exc |-> "JSONDecodeError", result |-> NoTmdbResult]
    ELSE IF resp.json = "not_object"
        THEN [exc |-> "AttributeError", result |-> NoTmdbResult]
    ELSE LET results == IF resp.has_results THEN resp.results ELSE <<>>
         IN  IF results = <<>>
                 THEN [exc |-> "", result |-> TmdbResult(FALSE, "No results", 0, "", 0)]
                 ELSE LET best == results[1]
                      IN  [exc |-> "",
                           result |-> TmdbResult(TRUE, "", 0, best.media_type, best.id)]

\* tmdb_search before the request is sent: the RuntimeError of require_env,
\* the early return for an empty query, or the request goes out (send)
tmdb_search_start(key, query) ==
    IF require_env("TMDB_API_KEY", key) # NoError
        THEN [exc |-> require_env("TMDB_API_KEY", key), send |-> FALSE,
              result |-> NoTmdbResult]
    ELSE IF query = <<>>
        THEN [exc |-> "", send |-> FALSE,
              result |-> TmdbResult(FALSE, "Empty query", 0, "", 0)]
    ELSE [exc |-> "", send |-> TRUE, result |-> NoTmdbResult]

\* variant: CLARIFAI_APP_ID is not required
clarifai_ocr_env_skipApp(pat, user, app, model) ==
    IF require_env("CLARIFAI_PAT", pat) # NoError
        THEN require_env("CLARIFAI_PAT", pat)
    ELSE IF require_env("CLARIFAI_USER_ID", user) # NoError
        THEN require_env("CLARIFAI_USER_ID", user)
    ELSE require_env("CLARIFAI_OCR_MODEL_ID", model)

\* the four require_env calls of clarifai_ocr, in order: the first error
clarifai_ocr_env(pat, user, app, model) ==
    IF require_env("CLARIFAI_PAT", pat) # NoError
        THEN require_env("CLARIFAI_PAT", pat)
    ELSE IF require_env("CLARIFAI_USER_ID", user) # NoError
        THEN require_env("CLARIFAI_USER_ID", user)
    ELSE IF require_env("CLARIFAI_APP_ID", app) # NoError
        THEN require_env("CLARIFAI_APP_ID", app)
    ELSE require_env("CLARIFAI_OCR_MODEL_ID", model)

(***************************************************************************)
(* Inputs                                                                  *)
(***************************************************************************)
MaxResults == 2
MaxFrags == 3

RECURSIVE SeqsUpTo(_, _)
SeqsUpTo(S, n) ==
    IF n = 0 THEN {<<>>}
    ELSE LET shorter == SeqsUpTo(S, n - 1)
         IN  shorter \cup {Append(q, x) : q \in {r \in shorter : Len(r) = n - 1}, x \in S}

EnvValues == {<<>>, <<"k">>}

Tokens == {<<>>, <<"t", "k">>}

Schemes == {<<>>, <<"B", "e", "a", "r", "e", "r">>, bearer,
            <<"B", "a", "s", "i", "c">>}
Gaps == {<<>>, <<" ">>, <<" ", " ">>}
Credentials == {<<>>, <<"t", "k">>, <<"t", "x">>, <<"t", "k", " ">>}

Headers == {None} \cup {a \o g \o c : a \in Schemes, g \in Gaps, c \in Credentials}

Files == {None, <<>>, <<"x">>}

\* OCR data of the replies of the request pipeline
SampleRegions ==
    { <<>>,
      << <<" ">> >>,
      << <<"a">> >>,
      << <<"a", "b">> >>,
      << <<"A", "b", "c">>, <<"a", "b", "c">> >>,
      << <<"a", "b", "c", "|", "d", "e", "s", "k">> >>,
      << <<"1", "2", "3", "4">> >>,
      << <<"a">>, <<"\n">>, <<"b">> >>,
      << <<" ", "a", "b", " ">>, <<"1">> >> }

ClarifaiReplies ==
    {ClarifaiReply(TRUE, 0, "none", NoCode, "absent", <<>>, <<>>, <<>>)}
    \cup {ClarifaiReply(FALSE, sc, "unparsable", NoCode, "absent", <<>>, <<>>, <<>>) :
            sc \in {200, 500}}
    \cup {ClarifaiReply(FALSE, 200, "not_object", NoCode, "absent", <<>>, <<>>, <<>>)}
    \cup {ClarifaiReply(FALSE, 200, "object", 30002, "absent", <<>>, <<>>, <<>>)}
    \cup {ClarifaiReply(FALSE, 200, "object", code, o, <<>>, <<>>, <<>>) :
            code \in {NoCode, ClarifaiSuccess}, o \in {"absent", "malformed"}}
    \cup {ClarifaiReply(FALSE, 200, "object", ClarifaiSuccess, "present", r, <<>>, <<>>) :
            r \in SampleRegions}
    \cup {ClarifaiReply(FALSE, 200, "object", ClarifaiSuccess, "present", <<>>, t, c) :
            t \in {<<>>, <<"a", "b", "c", "d">>},
            c \in {<<>>, << <<"c", "a", "t">> >>, << <<>>, <<"a", "b">> >>}}

\* OCR data of the replies of the consolidation check
Frags == { <<" ">>, <<"a">>, <<"A">>, <<" ", "a">>, <<"a", " ">>,
           <<"a", "b">>, <<"A", "B">>, <<" ", " ", "a", "B", " ">> }

OcrReplies ==
    {ClarifaiReply(FALSE, 200, "object", ClarifaiSuccess, "present", r, t, c) :
        r \in SeqsUpTo(Frags \cup {<<>>}, MaxFrags),
        t \in {<<>>, <<"a", "b">>},
        c \in {<<>>, << <<"A">> >>}}

MediaTypes == {"movie", "tv", "person"}

ResultLists ==
    {[i \in 1..Len(ms) |-> [media_type |-> ms[i], id |-> i]] :
        ms \in SeqsUpTo(MediaTypes, MaxResults)}

TmdbReplies ==
    {TmdbReply(TRUE, 0, "none", FALSE, <<>>)}
    \cup {TmdbReply(FALSE, sc, j, FALSE, <<>>) :
            sc \in {200, 401, 500}, j \in {"unparsable", "not_object", "object"}}
    \cup {TmdbReply(FALSE, sc, "object", TRUE, rs) :
            sc \in {200, 401, 500}, rs \in ResultLists}

(***************************************************************************)
(* The request                                                             *)
(***************************************************************************)
Pending ==
    /\ pc = "auth"
    /\ status = 0
    /\ detail = ""
    /\ calls = <<>>
    /\ clarifai_data = NoClarifaiReply
    /\ texts = <<>>
    /\ cleaned = <<>>
    /\ ocr_text = <<>>
    /\ guessed_title = <<>>
    /\ tmdb_resp = NoTmdbReply
    /\ tmdb_result = NoTmdbResult

Init ==
    /\ API_BEARER_TOKEN \in Tokens
    /\ CLARIFAI_PAT \in EnvValues
    /\ CLARIFAI_USER_ID \in EnvValues
    /\ CLARIFAI_APP_ID \in EnvValues
    /\ CLARIFAI_OCR_MODEL_ID \in EnvValues
    /\ TMDB_API_KEY \in EnvValues
    /\ authorization \in Headers
    /\ file \in Files
    /\ Pending

\* raise HTTPException(status_code, detail), or the handler's translation
\* of another exception: the request ends
Respond(code, msg) ==
    /\ status' = code
    /\ detail' = msg
    /\ pc' = "done"

\* Depends(bearer_auth): runs before the handler's body
BearerAuth ==
    /\ pc = "auth"
    /\ LET e == bearer_auth(API_BEARER_TOKEN, authorization)
       IN  IF e # NoError THEN Respond(401, e)
           ELSE pc' = "handler" /\ UNCHANGED <<status, detail>>
    /\ UNCHANGED <<config, request, calls, clarifai_data, texts, cleaned,
                   ocr_text, guessed_title, tmdb_resp, tmdb_result>>

\* variant: the emptiness of the upload is checked after the vision call
ReadFile_checkLate ==
    /\ pc = "handler"
    /\ IF file = None THEN Respond(400, "No file uploaded") /\ UNCHANGED calls
       ELSE IF file = <<>>
           THEN /\ Respond(400, "Uploaded file is empty")
                /\ calls' = <<"vision_call", "vision_reply">>
       ELSE pc' = "ocr" /\ UNCHANGED <<status, detail, calls>>
    /\ UNCHANGED <<config, request, clarifai_data, texts, cleaned,
                   ocr_text, guessed_title, tmdb_resp, tmdb_result>>

\* identify_screen up to the call of clarifai_ocr
ReadFile ==
    /\ pc = "handler"
    /\ IF file = None THEN Respond(400, "No file uploaded")
       ELSE IF file = <<>> THEN Respond(400, "Uploaded file is empty")
       ELSE pc' = "ocr" /\ UNCHANGED <<status, detail>>
    /\ UNCHANGED <<config, request, calls, clarifai_data, texts, cleaned,
                   ocr_text, guessed_title, tmdb_resp, tmdb_result>>

\* clarifai_ocr up to requests.post: require_env, then the request goes out
ClarifaiSend ==
    /\ pc = "ocr"
    /\ LET e == clarifai_ocr_env(CLARIFAI_PAT, CLARIFAI_USER_ID, CLARIFAI_APP_ID,
                                 CLARIFAI_OCR_MODEL_ID)
       IN  IF e # NoError
               THEN Respond(500, e) /\ UNCHANGED calls
               ELSE /\ calls' = Append(calls, "vision_call")
                    /\ pc' = "ocr_wait"
                    /\ UNCHANGED <<status, detail>>
    /\ UNCHANGED <<config, request, clarifai_data, texts, cleaned,
                   ocr_text, guessed_title, tmdb_resp, tmdb_result>>

\* the reply of the vision API arrives: the rest of clarifai_ocr, text
\* extraction, the title guess and tmdb_search up to requests.get
ClarifaiRecv(resp) ==
    /\ pc = "ocr_wait"
    /\ clarifai_data' = resp
    /\ LET r == clarifai_ocr_reply(resp)
           ts == GatherTexts(resp)
           text == extract_text_from_clarifai_response(resp)
           title == guess_title_from_text(text)
           t == tmdb_search_start(TMDB_API_KEY, title)
       IN  IF r.exc # ""
               THEN /\ Respond(500, "Server error: " \o r.exc)
                    /\ calls' = Append(calls, "vision_reply")
                    /\ UNCHANGED <<texts, cleaned, ocr_text, guessed_title, tmdb_result>>
           ELSE IF r.http # 0
               THEN /\ Respond(r.http, r.error)
                    /\ calls' = Append(calls, "vision_reply")
                    /\ UNCHANGED <<texts, cleaned, ocr_text, guessed_title, tmdb_result>>
           ELSE /\ texts' = ts
                /\ cleaned' = Cleanup(ts)
                /\ ocr_text' = text
                /\ guessed_title' = title
                /\ IF t.exc # ""
                       THEN /\ Respond(500, t.exc)
                            /\ calls' = Append(calls, "vision_reply")
                            /\ UNCHANGED tmdb_result
                   ELSE IF ~t.send
                       THEN /\ Respond(200, "")
                            /\ calls' = Append(calls, "vision_reply")
                            /\ tmdb_result' = t.result
                   ELSE /\ calls' = calls \o <<"vision_reply", "meta_call">>
                        /\ pc' = "tmdb_wait"
                        /\ UNCHANGED <<status, detail, tmdb_result>>
    /\ UNCHANGED <<config, request, tmdb_resp>>

\* variant: a failed metadata request is sent once more
TmdbRecv_retry(resp) ==
    /\ pc = "tmdb_wait"
    /\ tmdb_resp' = resp
    /\ LET r == tmdb_search_reply(resp)
       IN  IF r.exc # "" /\ Len(calls) < 5
               THEN /\ calls' = calls \o <<"meta_reply", "meta_call">>
                    /\ UNCHANGED <<pc, status, detail, tmdb_result>>
           ELSE IF r.exc # ""
               THEN /\ Respond(500, "Server error: " \o r.exc)
                    /\ calls' = Append(calls, "meta_reply")
                    /\ UNCHANGED tmdb_result
           ELSE /\ Respond(200, "")
                /\ calls' = Append(calls, "meta_reply")
                /\ tmdb_result' = r.result
    /\ UNCHANGED <<config, request, clarifai_data, texts, cleaned, ocr_text,
                   guessed_title>>

\* the reply of the metadata API arrives: the rest of tmdb_search and the
\* JSONResponse of identify_screen
TmdbRecv(resp) ==
    /\ pc = "tmdb_wait"
    /\ tmdb_resp' = resp
    /\ calls' = Append(calls, "meta_reply")
    /\ LET r == tmdb_search_reply(resp)
       IN  IF r.exc # ""
               THEN Respond(500, "Server error: " \o r.exc) /\ UNCHANGED tmdb_result
               ELSE Respond(200, "") /\ tmdb_result' = r.result
    /\ UNCHANGED <<config, request, clarifai_data, texts, cleaned, ocr_text,
                   guessed_title>>

VisionReply == pc = "ocr_wait" /\ \E resp \in ClarifaiReplies : ClarifaiRecv(resp)

MetadataReply == pc = "tmdb_wait" /\ \E resp \in TmdbReplies : TmdbRecv(resp)

Next ==
    \/ BearerAuth
    \/ ReadFile
    \/ ClarifaiSend
    \/ VisionReply
    \/ MetadataReply

Spec == Init /\ [][Next]_vars

(***************************************************************************)
(* The consolidation alone: one authenticated request, every short list of *)
(* fragments as the OCR data of a successful vision reply                  *)
(***************************************************************************)
InitOcr ==
    /\ API_BEARER_TOKEN \in Tokens
    /\ CLARIFAI_PAT = <<"k">>
    /\ CLARIFAI_USER_ID = <<"k">>
    /\ CLARIFAI_APP_ID = <<"k">>
    /\ CLARIFAI_OCR_MODEL_ID = <<"k">>
    /\ TMDB_API_KEY = <<"k">>
    /\ authorization = <<"B", "e", "a", "r", "e", "r", " ", "t", "k">>
    /\ file = <<"x">>
    /\ Pending

OcrReply == pc = "ocr_wait" /\ \E resp \in OcrReplies : ClarifaiRecv(resp)

NextOcr ==
    \/ BearerAuth
    \/ ReadFile
    \/ ClarifaiSend
    \/ OcrReply

SpecOcr == InitOcr /\ [][NextOcr]_vars

(***************************************************************************)
(* Properties                                                              *)
(***************************************************************************)
Done == pc = "done"

VisionReplied == clarifai_data # NoClarifaiReply
MetaReplied == tmdb_resp # NoTmdbReply

\* the vision API failed: transport error, non-success HTTP status, body
\* that is not a JSON object, or a non-success status code in the body
VisionFailed ==
    /\ VisionReplied
    /\ \/ clarifai_data.transport
       \/ clarifai_data.status_code # 200
       \/ clarifai_data.json \in {"unparsable", "not_object"}
       \/ clarifai_data.code \notin {NoCode, ClarifaiSuccess}

\* the metadata API failed: transport error, non-success HTTP status, or a
\* body that is not a JSON object
MetaFailed ==
    /\ MetaReplied
    /\ \/ tmdb_resp.transport
       \/ tmdb_resp.status_code # 200
       \/ tmdb_resp.json \in {"unparsable", "not_object"}

UpstreamFailed == VisionFailed \/ MetaFailed

Count(log, e) == Cardinality({i \in 1..Len(log) : log[i] = e})

AllSet == <<"k">>

\* C1: a request rejected for an auth error (401) or an input error (400:
\* no file, empty file) has made no call to the vision API and none to the
\* metadata API; a request whose header fails bearer auth or whose upload is
\* missing or empty never makes one.
C1_RejectedBeforeUpstream ==
    /\ status \in {400, 401} => calls = <<>>
    /\ file \in {None, <<>>} => calls = <<>> /\ (Done => status \in {400, 401})
    /\ (API_BEARER_TOKEN # <<>> /\ authorization \in {None, <<>>}) =>
            calls = <<>> /\ (Done => status = 401)

C1_Witness ==
    /\ Done
    /\ status = 400
    /\ file = <<>>
    /\ API_BEARER_TOKEN # <<>>
    /\ CLARIFAI_PAT = AllSet /\ CLARIFAI_USER_ID = AllSet
    /\ CLARIFAI_APP_ID = AllSet /\ CLARIFAI_OCR_MODEL_ID = AllSet

\* C2: every upstream failure, of the vision API or of the metadata API
\* (non-success HTTP status, transport error, malformed body), makes the
\* request end with HTTP status 502.
C2_UpstreamFailureIs502 == (Done /\ UpstreamFailed) => status = 502

\* the reply of the metadata API is a non-2xx reply, or its body is not the
\* JSON of an object
BadMetaReply ==
    /\ MetaReplied
    /\ ~tmdb_resp.transport
    /\ \/ tmdb_resp.status_code \notin 200..299
       \/ tmdb_resp.json \in {"unparsable", "not_object"}

\* C3: a non-2xx reply or a malformed body of the metadata API reaches the
\* caller as a failed lookup that differs from the no-match outcome: either
\* the {found: false, reason: "TMDB error", status_code} result or an
\* exception (the request then ends 500 "Server error: ..." and carries no
\* tmdb result); never {found: false, reason: "No results"}.
C3_LookupFailureIsNotNoMatch ==
    BadMetaReply =>
        /\ Done
        /\ tmdb_result.reason # "No results"
        /\ \/ /\ status = 200
              /\ ~tmdb_result.found
              /\ tmdb_result.reason = "TMDB error"
              /\ tmdb_result.status_code = tmdb_resp.status_code
           \/ /\ status = 500
              /\ detail \in {"Server error: JSONDecodeError",
                              "Server error: AttributeError"}
              /\ tmdb_result = NoTmdbResult

C3_Witness ==
    /\ BadMetaReply
    /\ tmdb_resp.status_code = 401
    /\ tmdb_resp.json = "object"
    /\ ~tmdb_resp.has_results
    /\ tmdb_result.reason = "TMDB error"

Allowed == {"movie", "tv"}

\* index of the first result of an allowed media type, 0 if there is none
FirstAllowed(results) ==
    IF \E i \in 1..Len(results) : results[i].media_type \in Allowed
        THEN CHOOSE i \in 1..Len(results) :
                /\ results[i].media_type \in Allowed
                /\ \A j \in 1..(i - 1) : results[j].media_type \notin Allowed
        ELSE 0

\* C4: a match returned by the metadata lookup has media type movie or tv:
\* results of other types are skipped, the first result of an allowed type
\* is the one returned, and without such a result no match is returned.
C4_MatchIsMovieOrShow ==
    (Done /\ MetaReplied /\ ~MetaFailed /\ tmdb_resp.has_results) =>
        LET i == FirstAllowed(tmdb_resp.results)
        IN  IF i = 0 THEN ~tmdb_result.found
            ELSE /\ tmdb_result.found
                 /\ tmdb_result.media_type \in Allowed
                 /\ tmdb_result.tmdb_id = tmdb_resp.results[i].id

\* C5: a query shorter than 3 characters after stripping gets a no-match
\* result and no request is sent to the metadata API.
C5_ShortQueryNoCall ==
    (VisionReplied /\ ~VisionFailed /\ TMDB_API_KEY # <<>>
        /\ Len(Strip(guessed_title)) < 3) =>
        /\ Count(calls, "meta_call") = 0
        /\ Done /\ status = 200 /\ ~tmdb_result.found

\* the header is the scheme Bearer (in any case), a space, and the token
\* tok up to surrounding whitespace
BearerHeaderFor(header, tok) ==
    /\ header # None
    /\ \E i \in 1..Len(header) :
        /\ header[i] = " "
        /\ \A j \in 1..(i - 1) : header[j] # " "
        /\ i = 7
        /\ \A j \in 1..6 : LowerChar(header[j]) = bearer[j]
        /\ \E a, b \in (i + 1)..Len(header) :
            /\ SubSeq(header, a, b) = tok
            /\ \A j \in ((i + 1)..(a - 1)) \cup ((b + 1)..Len(header)) : IsSpace(header[j])

\* C6: with an empty API_BEARER_TOKEN every request passes auth; with a
\* non-empty one a request passes exactly if its Authorization header is
\* 'Bearer <token>' with the configured token, and every other request
\* (header absent, wrong scheme, no token part, different token) ends 401.
C6_BearerAuth ==
    pc # "auth" =>
        IF API_BEARER_TOKEN = <<>> THEN status # 401
        ELSE IF BearerHeaderFor(authorization, API_BEARER_TOKEN) THEN status # 401
        ELSE Done /\ status = 401 /\ calls = <<>>

C6_Witness ==
    /\ Done
    /\ status = 401
    /\ detail = "Invalid token"
    /\ authorization = <<"B", "e", "a", "r", "e", "r", " ", "t", "x">>

\* the vision reply was a success and its text has been extracted
Extracted == VisionReplied /\ ~VisionFailed /\ clarifai_data.outputs = "present"

EqualIgnoringCase(a, b) == Lower(a) = Lower(b)

\* positions of the raw fragments that are non-empty once trimmed and that
\* no earlier fragment equals, ignoring case, once trimmed
FirstOccurrences(raw) ==
    {i \in 1..Len(raw) :
        /\ Strip(raw[i]) # <<>>
        /\ \A j \in 1..(i - 1) : ~EqualIgnoringCase(Strip(raw[j]), Strip(raw[i]))}

\* the elements of the set of positions P in increasing order
RECURSIVE Ascending(_)
Ascending(P) ==
    IF P = {} THEN <<>>
    ELSE LET m == CHOOSE x \in P : \A y \in P : x <= y
         IN  <<m>> \o Ascending(P \ {m})

\* C7: the cleanup keeps, trimmed and in input order, the first occurrence
\* of every class of fragments equal ignoring case, drops the fragments
\* that are empty once trimmed, keeps no two fragments equal ignoring case,
\* and the combined text is the kept fragments joined by single spaces.
C7_Consolidation ==
    Extracted =>
        LET keep == Ascending(FirstOccurrences(texts))
        IN  /\ Len(cleaned) = Len(keep)
            /\ \A k \in 1..Len(keep) : cleaned[k] = Strip(texts[keep[k]])
            /\ \A a, b \in 1..Len(cleaned) :
                    a # b => ~EqualIgnoringCase(cleaned[a], cleaned[b])
            /\ \A k \in 1..Len(cleaned) :
                    /\ cleaned[k] # <<>>
                    /\ ~IsSpace(cleaned[k][1])
                    /\ ~IsSpace(cleaned[k][Len(cleaned[k])])
            /\ ocr_text = Join(cleaned, <<" ">>)

C7_Witness ==
    /\ Extracted
    /\ texts = << <<"a", "b">>, <<" ">>, <<"A", "B">> >>
    /\ cleaned = << <<"a", "b">> >>
    /\ ocr_text = <<"a", "b">>

\* C8: the consolidation is idempotent: run again on the fragments it kept,
\* it keeps the same fragments and gives the same combined text.
C8_Idempotent ==
    Extracted =>
        consolidate(cleaned) = [fragments |-> cleaned, combinedText |-> ocr_text]

C8_Witness ==
    /\ Extracted
    /\ Len(texts) = 3
    /\ Len(cleaned) = 2
    /\ texts[1] = <<" ", " ", "a", "B", " ">>
    /\ cleaned[1] = <<"a", "B">>

\* the request passed auth and carried a non-empty file
Processed == pc \notin {"auth", "handler"} /\ status \notin {400, 401}

Settings ==
    << <<"CLARIFAI_PAT", CLARIFAI_PAT>>,
       <<"CLARIFAI_USER_ID", CLARIFAI_USER_ID>>,
       <<"CLARIFAI_APP_ID", CLARIFAI_APP_ID>>,
       <<"CLARIFAI_OCR_MODEL_ID", CLARIFAI_OCR_MODEL_ID>>,
       <<"TMDB_API_KEY", TMDB_API_KEY>> >>

Missing == {i \in 1..Len(Settings) : Settings[i][2] = <<>>}

MissingMessage(i) ==
    Settings[i][1] \o " is missing (Railway Variables -> " \o Settings[i][1] \o ")"

\* C9 as stated: every processed request (authenticated, non-empty file)
\* with a required setting absent ends with status 500 and a message that
\* names a missing setting.
C9_MisconfigurationIs500 ==
    (Done /\ Processed /\ Missing # {}) =>
        /\ status = 500
        /\ \E i \in Missing : detail = MissingMessage(i)

\* C9 amended: a processed request with a Clarifai setting absent ends 500
\* naming the first absent one (in the order PAT, USER_ID, APP_ID,
\* OCR_MODEL_ID) before any remote call; with only TMDB_API_KEY absent the
\* vision call is made first and the request ends 500 naming TMDB_API_KEY
\* exactly if that call succeeded, no metadata call being made.
C9_MisconfigurationAmended ==
    (Done /\ Processed /\ Missing # {}) =>
        LET first == CHOOSE i \in Missing : \A j \in Missing : i <= j
        IN  IF first < 5
                THEN status = 500 /\ detail = MissingMessage(first) /\ calls = <<>>
                ELSE /\ calls = <<"vision_call", "vision_reply">>
                     /\ (status = 500 /\ detail = MissingMessage(5)) <=> ~VisionFailed

C9_Witness ==
    /\ Done
    /\ Processed
    /\ Missing = {5}
    /\ ~VisionFailed
    /\ status = 500
    /\ detail = "TMDB_API_KEY is missing (Railway Variables -> TMDB_API_KEY)"

Pipeline == <<"vision_call", "vision_reply", "meta_call", "meta_reply">>

IsCall(e) == e \in {"vision_call", "meta_call"}

\* C10: the remote calls of a request are sequential without retry: the
\* vision API is called at most once, the metadata API at most once and only
\* after a successful vision reply, and after an upstream failure no
\* further remote call is made.
C10_SequentialNoRetry ==
    /\ [](/\ Count(calls, "vision_call") <= 1
          /\ Count(calls, "meta_call") <= 1
          /\ calls = SubSeq(Pipeline, 1, Len(calls))
          /\ Count(calls, "meta_call") = 1 => (VisionReplied /\ ~VisionFailed)
          /\ VisionFailed => Count(calls, "meta_call") = 0)
    /\ [][UpstreamFailed =>
            Len(SelectSeq(calls', IsCall)) = Len(SelectSeq(calls, IsCall))]_vars

C10_Witness ==
    /\ Done
    /\ calls = Pipeline
    /\ MetaFailed
    /\ tmdb_resp.transport

====
